---- MODULE Spec2Model ----
(***************************************************************************)
(* Reservation tools of the Supabase Reservations MCP server.              *)
(*                                                                         *)
(* The model follows one tool invocation through the handler registered by *)
(* registerDatabaseTools: schema parse, request construction, the single   *)
(* fetch, result normalization and the response envelope, against a        *)
(* backend that keeps the reservations table.                              *)
(*                                                                         *)
(* Strings are sequences of characters (one-character strings); the fixed  *)
(* pieces of the message templates are kept as single tokens.              *)
(***************************************************************************)
EXTENDS Integers, Sequences, FiniteSets, TLC

VARIABLES env, db, inv, lastDelete, server, pending

vars == <<env, db, inv, lastDelete, server, pending>>

-----------------------------------------------------------------------------
(* JavaScript values                                                       *)

\* The value undefined, for a string-typed or number-typed field.
Undefined == <<"?undefined">>

\* A lone UTF-16 surrogate (U+D800), a legal character of a JS string.
Surrogate == "?D800"

\* A run of 1999 characters 'x', to reach the notes limit with short sequences.
LongRun == "?x1999"

NotesMax == 2000

LongRunLen == NotesMax - 1

RECURSIVE StrLen(_)
\* String.prototype.length
StrLen(s) ==
    IF s = <<>> THEN 0
    ELSE (IF Head(s) = LongRun THEN LongRunLen ELSE 1) + StrLen(Tail(s))

\* Number(x) of the numeric-like values the model draws for nb_people.
\* A raw value is <<type, literal>>; the result is <<"number", literal>>.
Number(v) ==
    IF v[1] = "number" THEN v
    ELSE IF v[2] \in {"0", "1", "2", "4"} THEN <<"number", v[2]>>
    ELSE IF v[2] = "" THEN <<"number", "0">>
    ELSE <<"number", "NaN">>

IsInteger(n) == n[2] \in {"0", "1", "2", "4"}

NumValue(n) ==
    CASE n[2] = "0" -> 0
      [] n[2] = "1" -> 1
      [] n[2] = "2" -> 2
      [] n[2] = "4" -> 4
      [] OTHER -> 0

-----------------------------------------------------------------------------
(* src/types.ts: field schemas                                             *)

\* z.string().min(1)
mobileField(v) == v # Undefined /\ StrLen(v) >= 1

nameField(v) == v # Undefined /\ StrLen(v) >= 1

dateField(v) == v # Undefined /\ StrLen(v) >= 1

timeField(v) == v # Undefined /\ StrLen(v) >= 1

\* z.coerce.number().int().min(1): Number(input), an integer, at least 1.
\* Number(undefined) is NaN, so an absent value fails.
nbPeopleField(v) ==
    /\ v # Undefined
    /\ IsInteger(Number(v))
    /\ NumValue(Number(v)) >= 1

\* The shape zod's email check accepts: local@label.tld, one '@', a
\* non-empty local part, a dot inside the domain and a tld of two letters
\* or more.
IsEmail(s) ==
    \E i \in 2 .. Len(s) :
        /\ s[i] = "@"
        /\ \A k \in 1 .. Len(s) : s[k] = "@" => k = i
        /\ \A k \in 1 .. Len(s) : s[k] \notin {" ", Surrogate, LongRun}
        /\ s[1] # "."
        /\ \E j \in (i + 2) .. (Len(s) - 2) :
              /\ s[j] = "."
              /\ \A k \in (j + 1) .. Len(s) : s[k] \notin {".", "@"}

\* z.string().email().optional()
emailField(v) == v = Undefined \/ IsEmail(v)

\* z.string().max(2000).optional()
notesField(v) == v = Undefined \/ StrLen(v) <= NotesMax

\* An input object: every key the four schemas know, and extra, a key none
\* of them knows; an absent key holds Undefined (the code reads absent and
\* undefined alike). The schemas strip the keys they do not know.
NoInput ==
    [mobile |-> Undefined, name |-> Undefined, new_mobile |-> Undefined,
     new_name |-> Undefined, nb_people |-> Undefined, email |-> Undefined,
     date |-> Undefined, time |-> Undefined, notes |-> Undefined,
     extra |-> Undefined]

\* The keys of updateOnlyFields.
updateOnlyFields ==
    {"new_mobile", "new_name", "nb_people", "email", "date", "time", "notes"}

\* A parse result: success, and the parsed object (nb_people coerced and
\* keys outside the schema stripped).
ParseOk(data) == [success |-> TRUE, data |-> data]

ParseFail == [success |-> FALSE, data |-> NoInput]

CreateReservationSchema(input) ==
    IF /\ mobileField(input.mobile)
       /\ nameField(input.name)
       /\ nbPeopleField(input.nb_people)
       /\ dateField(input.date)
       /\ timeField(input.time)
       /\ emailField(input.email)
       /\ notesField(input.notes)
    THEN ParseOk([NoInput EXCEPT
                    !.mobile = input.mobile, !.name = input.name,
                    !.nb_people = Number(input.nb_people),
                    !.date = input.date, !.time = input.time,
                    !.email = input.email, !.notes = input.notes])
    ELSE ParseFail

UpdateReservationBase(input) ==
    /\ mobileField(input.mobile)
    /\ nameField(input.name)
    /\ (input.new_mobile = Undefined \/ mobileField(input.new_mobile))
    /\ (input.new_name = Undefined \/ nameField(input.new_name))
    /\ (input.nb_people = Undefined \/ nbPeopleField(input.nb_people))
    /\ emailField(input.email)
    /\ (input.date = Undefined \/ dateField(input.date))
    /\ (input.time = Undefined \/ timeField(input.time))
    /\ notesField(input.notes)

UpdateRefineDropped(data) == TRUE

\* The refinement: some key of updateOnlyFields is not undefined.
UpdateRefine(data) == \E key \in updateOnlyFields : data[key] # Undefined

UpdateReservationSchema(input) ==
    IF UpdateReservationBase(input) /\ UpdateRefine(input)
    THEN ParseOk([input EXCEPT
                    !.nb_people = IF input.nb_people = Undefined
                                  THEN Undefined
                                  ELSE Number(input.nb_people),
                    !.extra = Undefined])
    ELSE ParseFail

DeleteReservationSchema(input) ==
    IF mobileField(input.mobile) /\ nameField(input.name)
    THEN ParseOk([NoInput EXCEPT
                    !.mobile = input.mobile, !.name = input.name])
    ELSE ParseFail

\* The lookup schema (not among the sources): mobile and name required,
\* date and time optional non-empty strings.
GetReservationSchema(input) ==
    IF /\ mobileField(input.mobile)
       /\ nameField(input.name)
       /\ (input.date = Undefined \/ dateField(input.date))
       /\ (input.time = Undefined \/ timeField(input.time))
    THEN ParseOk([NoInput EXCEPT
                    !.mobile = input.mobile, !.name = input.name,
                    !.date = input.date, !.time = input.time])
    ELSE ParseFail

-----------------------------------------------------------------------------
(* JS values carried by requests, responses and envelopes                  *)

\* A JSON object of the reservations API: a row, or an error body with a
\* message. An absent key holds Undefined.
NoObj ==
    [name |-> Undefined, mobile |-> Undefined, date |-> Undefined,
     time |-> Undefined, message |-> Undefined]

\* A JS value: t is its kind; rows the elements of an array; obj the object.
\*   "undefined"; "string" (text that is not JSON); "falsy" (null, 0, false);
\*   "truthy" (a non-zero number, true); "array"; "object".
JSUndefined == [t |-> "undefined", rows |-> <<>>, obj |-> NoObj]

JSString == [t |-> "string", rows |-> <<>>, obj |-> NoObj]

JSFalsy == [t |-> "falsy", rows |-> <<>>, obj |-> NoObj]

JSTruthy == [t |-> "truthy", rows |-> <<>>, obj |-> NoObj]

JSArray(rows) == [t |-> "array", rows |-> rows, obj |-> NoObj]

JSObject(o) == [t |-> "object", rows |-> <<>>, obj |-> o]

NotNullOnly(v) == v.t = "falsy"

\* !x
Not(v) == v.t \in {"undefined", "falsy"}

\* typeof v === "object" && v !== null
IsObjectNotNull(v) == v.t \in {"array", "object"}

\* v.key for a property read that does not throw (v is not null/undefined).
Prop(v, key) == IF v.t = "object" THEN v.obj[key] ELSE Undefined

\* a ?? b
Coalesce(a, b) == IF a # Undefined THEN a ELSE b

LastOrSelf(data) ==
    IF data.t = "array"
    THEN (IF data.rows = <<>> THEN JSUndefined
          ELSE JSObject(data.rows[Len(data.rows)]))
    ELSE data

\* Array.isArray(data) ? data[0] : data
FirstOrSelf(data) ==
    IF data.t = "array"
    THEN (IF data.rows = <<>> THEN JSUndefined ELSE JSObject(data.rows[1]))
    ELSE data

-----------------------------------------------------------------------------
(* URLs                                                                    *)

\* The escape of each reserved character the model draws.
PercentCode(c) ==
    CASE c = "&" -> <<"%", "2", "6">>
      [] c = "=" -> <<"%", "3", "D">>
      [] c = "#" -> <<"%", "2", "3">>
      [] c = "+" -> <<"%", "2", "B">>
      [] c = " " -> <<"%", "2", "0">>
      [] c = "%" -> <<"%", "2", "5">>
      [] c = ":" -> <<"%", "3", "A">>
      [] c = "@" -> <<"%", "4", "0">>
      [] c = "?" -> <<"%", "3", "F">>
      [] OTHER -> <<c>>

RECURSIVE EscapeAll(_)
EscapeAll(s) ==
    IF s = <<>> THEN <<>> ELSE PercentCode(Head(s)) \o EscapeAll(Tail(s))

\* The result of an encoding that did not throw.
Encoded(s) == [threw |-> FALSE, value |-> s]

NoEncoding(s) == Encoded(s)

\* encodeURIComponent: escapes every character but the unreserved ones and
\* throws URIError on a lone surrogate.
encodeURIComponent(s) ==
    IF \E i \in 1 .. Len(s) : s[i] = Surrogate
    THEN [threw |-> TRUE, value |-> <<>>]
    ELSE Encoded(EscapeAll(s))

RESERVATIONS_ENDPOINT == <<"reservations">>

\* `${RESERVATIONS_ENDPOINT}?mobile=eq.${encodedMobile}&name=eq.${encodedName}`
FilterPath(encodedMobile, encodedName) ==
    RESERVATIONS_ENDPOINT \o <<"?", "mobile", "=", "eq.">> \o encodedMobile
        \o <<"&", "name", "=", "eq.">> \o encodedName

\* Index of the last "/" of a URL, 0 when there is none.
LastSlash(u) ==
    IF \E i \in 1 .. Len(u) : u[i] = "/"
    THEN CHOOSE i \in 1 .. Len(u) :
            u[i] = "/" /\ \A j \in (i + 1) .. Len(u) : u[j] # "/"
    ELSE 0

\* Index of the first c in u, Len(u) + 1 when there is none.
FirstOf(u, c) ==
    IF \E i \in 1 .. Len(u) : u[i] = c
    THEN CHOOSE i \in 1 .. Len(u) :
            u[i] = c /\ \A j \in 1 .. (i - 1) : u[j] # c
    ELSE Len(u) + 1

\* new URL(path, base) for a relative path and a base ending in a
\* directory: the path replaces what follows the base's last "/"; the
\* request target ends at the first "#" (the fragment is never sent).
NewURL(path, base) ==
    SubSeq(base, 1, LastSlash(base)) \o SubSeq(path, 1, FirstOf(path, "#") - 1)

-----------------------------------------------------------------------------
(* src/tools/reservations-service.ts                                       *)

\* The text of the errors the model tells apart.
UrlNotConfigured == <<"SUPABASE_URL is not configured in the worker environment">>

KeyNotConfigured ==
    <<"SUPABASE_SERVICE_ROLE_KEY is not configured in the worker environment">>

KeepTrailingSlash(u) == u

\* url.replace(/\/$/, "")
StripTrailingSlash(u) ==
    IF u # <<>> /\ u[Len(u)] = "/" THEN SubSeq(u, 1, Len(u) - 1) ELSE u

\* !url, !key: undefined or the empty string.
getSupabaseConfig(e) ==
    IF e.SUPABASE_URL = Undefined \/ e.SUPABASE_URL = <<>>
    THEN [threw |-> TRUE, error |-> UrlNotConfigured, url |-> <<>>, key |-> <<>>]
    ELSE IF e.SUPABASE_SERVICE_ROLE_KEY = Undefined
            \/ e.SUPABASE_SERVICE_ROLE_KEY = <<>>
    THEN [threw |-> TRUE, error |-> KeyNotConfigured, url |-> <<>>, key |-> <<>>]
    ELSE [threw |-> FALSE, error |-> <<>>,
          url |-> StripTrailingSlash(e.SUPABASE_URL),
          key |-> e.SUPABASE_SERVICE_ROLE_KEY]

AllKeys(record) == DOMAIN record

\* The keys whose value is not undefined: those the filter of the updates
\* keeps, and those JSON.stringify writes.
DefinedKeys(record) == {key \in DOMAIN record : record[key] # Undefined}

\* A request body: none, an array of one record, or an object; fields holds
\* the record, an absent key holding Undefined, and keys the keys the body
\* has.
NoBody == [kind |-> "none", fields |-> NoInput, keys |-> {}]

ArrayBody(record) ==
    [kind |-> "array", fields |-> record, keys |-> DefinedKeys(record)]

ObjectBody(record) ==
    [kind |-> "object", fields |-> record, keys |-> DefinedKeys(record)]

NoHeaders ==
    [apikey |-> Undefined, Authorization |-> Undefined,
     ContentType |-> Undefined, Prefer |-> Undefined]

NoRequest == [method |-> "", url |-> <<>>, headers |-> NoHeaders, body |-> NoBody]

FailureTimed(error) ==
    [success |-> FALSE, error |-> error, data |-> JSUndefined, duration |-> TRUE]

\* A DatabaseOperationResult; error Undefined and data JSUndefined when
\* absent; duration TRUE when the field is set.
Failure(error) ==
    [success |-> FALSE, error |-> error, data |-> JSUndefined, duration |-> FALSE]

NoResult == Failure(Undefined)

\* What a service call has done when it first suspends or ends:
\*   "throw"  an exception left the service function (no request);
\*   "result" supabaseRequest returned without fetching;
\*   "fetch"  fetch was called with request and the call awaits it.
Thrown(error) ==
    [kind |-> "throw", error |-> error, result |-> NoResult, request |-> NoRequest]

Returned(result) ==
    [kind |-> "result", error |-> <<>>, result |-> result, request |-> NoRequest]

Fetching(request) ==
    [kind |-> "fetch", error |-> <<>>, result |-> NoResult, request |-> request]

\* prefer.join(",") of the lists the services pass, which have one element
\* at most: the header is not set for an empty list, and is the element, as
\* a string of one token, otherwise.
PreferHeader(prefer) == IF prefer = <<>> THEN Undefined ELSE <<prefer[1]>>

supabaseRequestJsonAlways(e, path, init) ==
    LET config == getSupabaseConfig(e) IN
    IF config.threw
    THEN Returned(Failure(config.error))
    ELSE Fetching(
           [method |-> init.method,
            url |-> NewURL(path, config.url \o <<"/", "rest", "/", "v1", "/">>),
            headers |->
              [apikey |-> config.key,
               Authorization |-> <<"Bearer ">> \o config.key,
               ContentType |-> <<"application/json">>,
               Prefer |-> PreferHeader(init.prefer)],
            body |-> init.body])

\* supabaseRequest up to its await of fetch: the configuration is read
\* inside the try, so a missing value becomes a failure result.
supabaseRequest(e, path, init) ==
    LET config == getSupabaseConfig(e) IN
    IF config.threw
    THEN Returned(Failure(config.error))
    ELSE Fetching(
           [method |-> init.method,
            url |-> NewURL(path, config.url \o <<"/", "rest", "/", "v1", "/">>),
            headers |->
              [apikey |-> config.key,
               Authorization |-> <<"Bearer ">> \o config.key,
               ContentType |-> IF init.body.kind # "none"
                               THEN <<"application/json">> ELSE Undefined,
               Prefer |-> PreferHeader(init.prefer)],
            body |-> init.body])

\* A response body text: empty, text that is not JSON, or JSON of a value.
EmptyText == [k |-> "empty", value |-> JSUndefined]

InvalidText == [k |-> "invalid", value |-> JSUndefined]

JsonText(v) == [k |-> "json", value |-> v]

\* What the await of fetch and of response.text() can produce.
FetchRejected(msg) ==
    [kind |-> "fetchRejected", error |-> msg, ok |-> FALSE,
     statusText |-> <<>>, text |-> EmptyText]

TextRejected(msg) ==
    [kind |-> "textRejected", error |-> msg, ok |-> FALSE,
     statusText |-> <<>>, text |-> EmptyText]

Response(ok, statusText, text) ==
    [kind |-> "response", error |-> <<>>, ok |-> ok,
     statusText |-> statusText, text |-> text]

ParsedDataDropsText(text) ==
    CASE text.k = "json" -> text.value
      [] OTHER -> JSUndefined

\* data after `if (hasText) { try { JSON.parse } catch { data = text } }`
ParsedData(text) ==
    CASE text.k = "empty" -> JSUndefined
      [] text.k = "invalid" -> JSString
      [] OTHER -> text.value

ErrorMessageStatusOnly(data, statusText) == statusText

\* errorMessage of a response that is not ok.
ErrorMessage(data, statusText) ==
    IF IsObjectNotNull(data)
    THEN Coalesce(Prop(data, "message"), statusText)
    ELSE statusText

supabaseRequestResultAnyStatus(outcome) ==
    IF outcome.kind # "response"
    THEN Failure(outcome.error)
    ELSE [success |-> TRUE, error |-> Undefined, data |-> ParsedData(outcome.text),
          duration |-> TRUE]

supabaseRequestResultDataAlways(outcome) ==
    IF outcome.kind # "response"
    THEN Failure(outcome.error)
    ELSE LET data == ParsedData(outcome.text) IN
         [success |-> outcome.ok,
          error |-> IF outcome.ok THEN Undefined
                    ELSE ErrorMessage(data, outcome.statusText),
          data |-> data,
          duration |-> TRUE]

\* supabaseRequest from the await of fetch to its return.
supabaseRequestResult(outcome) ==
    IF outcome.kind # "response"
    THEN Failure(outcome.error)
    ELSE LET data == ParsedData(outcome.text) IN
         IF ~outcome.ok
         THEN [success |-> FALSE,
               error |-> ErrorMessage(data, outcome.statusText),
               data |-> IF IsObjectNotNull(data) THEN data ELSE JSUndefined,
               duration |-> TRUE]
         ELSE [success |-> TRUE, error |-> Undefined, data |-> data,
               duration |-> TRUE]

\* normalizeReservationPayload
normalizeReservationPayload(payload) ==
    IF payload.nb_people # Undefined
    THEN [payload EXCEPT !.nb_people = Number(payload.nb_people)]
    ELSE payload

ZodError == <<"ZodError">>

URIError == <<"URI malformed">>

Representation == <<"return=representation">>

createReservation(e, payload) ==
    LET parsedPayload == CreateReservationSchema(payload) IN
    IF ~parsedPayload.success THEN Thrown(ZodError)
    ELSE supabaseRequest(e, RESERVATIONS_ENDPOINT,
           [method |-> "POST",
            body |-> ArrayBody(normalizeReservationPayload(parsedPayload.data)),
            prefer |-> Representation])

UpdatesWithoutRekey(p) ==
    normalizeReservationPayload(
        [NoInput EXCEPT
            !.nb_people = p.nb_people, !.email = p.email, !.date = p.date,
            !.time = p.time, !.notes = p.notes])

\* The updates object: the optional fields, new_mobile and new_name moved
\* onto mobile and name (ObjectBody drops the entries with an undefined
\* value).
Updates(p) ==
    normalizeReservationPayload(
        [NoInput EXCEPT
            !.nb_people = p.nb_people, !.email = p.email, !.date = p.date,
            !.time = p.time, !.notes = p.notes,
            !.mobile = p.new_mobile, !.name = p.new_name])

updateReservation(e, payload) ==
    LET parsedPayload == UpdateReservationSchema(payload) IN
    IF ~parsedPayload.success THEN Thrown(ZodError)
    ELSE LET encodedMobile == encodeURIComponent(parsedPayload.data.mobile)
             encodedName == encodeURIComponent(parsedPayload.data.name)
         IN IF encodedMobile.threw \/ encodedName.threw THEN Thrown(URIError)
            ELSE supabaseRequest(e,
                   FilterPath(encodedMobile.value, encodedName.value),
                   [method |-> "PATCH",
                    body |-> ObjectBody(Updates(parsedPayload.data)),
                    prefer |-> Representation])

deleteReservation(e, payload) ==
    LET parsedPayload == DeleteReservationSchema(payload) IN
    IF ~parsedPayload.success THEN Thrown(ZodError)
    ELSE LET encodedMobile == encodeURIComponent(parsedPayload.data.mobile)
             encodedName == encodeURIComponent(parsedPayload.data.name)
         IN IF encodedMobile.threw \/ encodedName.threw THEN Thrown(URIError)
            ELSE supabaseRequest(e,
                   FilterPath(encodedMobile.value, encodedName.value),
                   [method |-> "DELETE", body |-> NoBody,
                    prefer |-> Representation])

\* The lookup service (not among the sources): GET of all columns filtered
\* by mobile and name, and by date and time when supplied; every value
\* percent-encoded.
getReservation(e, payload) ==
    LET parsedPayload == GetReservationSchema(payload) IN
    IF ~parsedPayload.success THEN Thrown(ZodError)
    ELSE LET p == parsedPayload.data
             encodedMobile == encodeURIComponent(p.mobile)
             encodedName == encodeURIComponent(p.name)
             encodedDate ==
                 IF p.date = Undefined THEN Encoded(<<>>)
                 ELSE encodeURIComponent(p.date)
             encodedTime ==
                 IF p.time = Undefined THEN Encoded(<<>>)
                 ELSE encodeURIComponent(p.time)
         IN IF \/ encodedMobile.threw \/ encodedName.threw
               \/ encodedDate.threw \/ encodedTime.threw
            THEN Thrown(URIError)
            ELSE supabaseRequest(e,
                   RESERVATIONS_ENDPOINT
                     \o <<"?", "select", "=", "*", "&", "mobile", "=", "eq.">>
                     \o encodedMobile.value
                     \o <<"&", "name", "=", "eq.">> \o encodedName.value
                     \o (IF p.date = Undefined THEN <<>>
                         ELSE <<"&", "date", "=", "eq.">> \o encodedDate.value)
                     \o (IF p.time = Undefined THEN <<>>
                         ELSE <<"&", "time", "=", "eq.">> \o encodedTime.value),
                   [method |-> "GET", body |-> NoBody, prefer |-> <<>>])

-----------------------------------------------------------------------------
(* src/types.ts: response envelopes                                        *)

\* An envelope: one text content item. text is the heading followed by the
\* message; block names the JSON block appended to it ("none" when the
\* value is undefined) and json is the value printed in it. isError FALSE
\* stands for an item without the isError key; items is the length of the
\* content array.
createSuccessResponse(message, data) ==
    [items |-> Cardinality({"text"}),
     isError |-> FALSE,
     text |-> <<"**Success**">> \o message,
     block |-> IF data.t # "undefined" THEN "Result" ELSE "none",
     json |-> data]

createErrorResponseUnflagged(message, details) ==
    [items |-> Cardinality({"text"}),
     isError |-> FALSE,
     text |-> <<"**Error**">> \o message,
     block |-> IF details.t # "undefined" THEN "Details" ELSE "none",
     json |-> details]

createErrorResponse(message, details) ==
    [items |-> Cardinality({"text"}),
     isError |-> TRUE,
     text |-> <<"**Error**">> \o message,
     block |-> IF details.t # "undefined" THEN "Details" ELSE "none",
     json |-> details]

NoEnvelope ==
    [items |-> Cardinality({}), isError |-> FALSE, text |-> <<>>, block |-> "none",
     json |-> JSUndefined]

-----------------------------------------------------------------------------
(* src/tools/database-tools.ts: the handlers after the service call        *)

\* `${x}` of a string or undefined.
Str(x) == IF x = Undefined THEN <<"undefined">> ELSE x

\* A JS truthiness test of a string or undefined.
Truthy(x) == x # Undefined /\ x # <<>>

GuestAndMobileSwapped(typedInput) ==
    Coalesce(typedInput.mobile, <<"unknown guest">>) \o <<" (">>
        \o Coalesce(typedInput.name, <<"unknown mobile">>) \o <<")">>

\* `${name ?? "unknown guest"} (${mobile ?? "unknown mobile"})`
GuestAndMobile(typedInput) ==
    Coalesce(typedInput.name, <<"unknown guest">>) \o <<" (">>
        \o Coalesce(typedInput.mobile, <<"unknown mobile">>) \o <<")">>

countAllFields(input) ==
    Cardinality({key \in DOMAIN input : input[key] # Undefined})

\* The keys countChangedFields leaves out.
ignoredKeys == {"mobile", "name"}

\* Object.entries(input) without the ignored keys and without the entries
\* whose value is undefined, counted.
countChangedFields(input) ==
    Cardinality({key \in DOMAIN input \ ignoredKeys : input[key] # Undefined})

createHandlerUnchecked(input, result) ==
    IF ~result.success
    THEN createErrorResponse(
           <<"Failed to create reservation: ">> \o Str(result.error), result.data)
    ELSE LET created == FirstOrSelf(result.data) IN
         createSuccessResponse(
           <<"Created reservation for ">>
             \o Coalesce(Prop(created, "name"), <<"guest">>)
             \o <<" on ">> \o Coalesce(Prop(created, "date"), <<"unknown date">>)
             \o <<" at ">> \o Coalesce(Prop(created, "time"), <<"unknown time">>)
             \o <<".">>,
           created)

createHandler(input, result) ==
    IF ~result.success
    THEN createErrorResponse(
           <<"Failed to create reservation: ">> \o Str(result.error), result.data)
    ELSE LET created == FirstOrSelf(result.data) IN
         IF Not(created)
         THEN createErrorResponse(
                <<"Supabase returned no data after creating the reservation.">>,
                JSUndefined)
         ELSE createSuccessResponse(
                <<"Created reservation for ">>
                  \o Coalesce(Prop(created, "name"), <<"guest">>)
                  \o <<" on ">> \o Coalesce(Prop(created, "date"), <<"unknown date">>)
                  \o <<" at ">> \o Coalesce(Prop(created, "time"), <<"unknown time">>)
                  \o <<".">>,
                created)

ReservationCountAsFlag(data) ==
    IF data.t = "array" THEN (IF data.rows = <<>> THEN 0 ELSE 1)
    ELSE IF Not(data) THEN 0 ELSE 1

\* reservations.length of Array.isArray(data) ? data : data ? [data] : []
ReservationCount(data) ==
    IF data.t = "array" THEN Len(data.rows) ELSE IF Not(data) THEN 0 ELSE 1

getHandler(typedInput, result) ==
    IF ~result.success
    THEN createErrorResponse(
           <<"Failed to get the reservation for ">> \o GuestAndMobile(typedInput)
             \o <<": ">> \o Str(result.error),
           result.data)
    ELSE LET n == ReservationCount(result.data)
             first == FirstOrSelf(result.data)
         IN IF n = 0
            THEN createErrorResponse(
                   <<"No reservation for ">> \o GuestAndMobile(typedInput)
                     \o (IF Truthy(typedInput.date)
                         THEN <<" ", "on ">> \o typedInput.date ELSE <<>>)
                     \o (IF Truthy(typedInput.time)
                         THEN <<" ", "at ">> \o typedInput.time ELSE <<>>)
                     \o <<".">>,
                   result.data)
            ELSE createSuccessResponse(
                   <<"Found ">>
                     \o (IF n = 1 THEN <<"reservation">>
                         ELSE <<ToString(n), " reservations">>)
                     \o <<" for ">>
                     \o Coalesce(Prop(first, "name"),
                                 Coalesce(typedInput.name, <<"guest">>))
                     \o <<" (">>
                     \o Coalesce(Prop(first, "mobile"),
                                 Coalesce(typedInput.mobile, <<"mobile">>))
                     \o <<").">>,
                   IF n = 1 THEN first ELSE result.data)

updateHandlerUnchecked(typedInput, result) ==
    IF ~result.success
    THEN createErrorResponse(
           <<"Failed to update the reservation for ">> \o GuestAndMobile(typedInput)
             \o <<": ">> \o Str(result.error),
           result.data)
    ELSE createSuccessResponse(
           <<"Updated reservation for ">> \o GuestAndMobile(typedInput) \o <<".">>,
           FirstOrSelf(result.data))

updateHandler(typedInput, result) ==
    IF ~result.success
    THEN createErrorResponse(
           <<"Failed to update the reservation for ">> \o GuestAndMobile(typedInput)
             \o <<": ">> \o Str(result.error),
           result.data)
    ELSE LET updated == FirstOrSelf(result.data)
             changedFields == countChangedFields(typedInput)
         IN IF Not(updated)
            THEN createErrorResponse(
                   <<"No reservation for ">> \o GuestAndMobile(typedInput)
                     \o <<" was updated. It may not exist.">>,
                   result.data)
            ELSE createSuccessResponse(
                   <<"Updated reservation for ">>
                     \o Coalesce(Prop(updated, "name"),
                                 Coalesce(typedInput.name, <<"guest">>))
                     \o <<" (">>
                     \o Coalesce(Prop(updated, "mobile"),
                                 Coalesce(typedInput.mobile, <<"mobile">>))
                     \o <<"). ">>
                     \o <<ToString(changedFields), " field">>
                     \o (IF changedFields = 1 THEN <<>> ELSE <<"s">>)
                     \o <<" changed.">>,
                   updated)

deleteHandlerWholeList(typedInput, result) ==
    IF ~result.success
    THEN createErrorResponse(
           <<"Failed to delete the reservation for ">> \o GuestAndMobile(typedInput)
             \o <<": ">> \o Str(result.error),
           result.data)
    ELSE LET deleted == FirstOrSelf(result.data)
             n == ReservationCount(result.data)
         IN
         IF Not(deleted)
         THEN createErrorResponse(
                <<"No reservation for ">> \o GuestAndMobile(typedInput)
                  \o <<" was deleted. It may not exist.">>,
                result.data)
         ELSE createSuccessResponse(
                <<"Deleted reservation for ">>
                  \o Coalesce(Prop(deleted, "name"),
                              Coalesce(typedInput.name, <<"guest">>))
                  \o <<" (">>
                  \o Coalesce(Prop(deleted, "mobile"),
                              Coalesce(typedInput.mobile, <<"mobile">>))
                  \o <<").">>,
                IF n = 1 THEN deleted ELSE result.data)

deleteHandler(typedInput, result) ==
    IF ~result.success
    THEN createErrorResponse(
           <<"Failed to delete the reservation for ">> \o GuestAndMobile(typedInput)
             \o <<": ">> \o Str(result.error),
           result.data)
    ELSE LET deleted == FirstOrSelf(result.data) IN
         IF Not(deleted)
         THEN createErrorResponse(
                <<"No reservation for ">> \o GuestAndMobile(typedInput)
                  \o <<" was deleted. It may not exist.">>,
                result.data)
         ELSE createSuccessResponse(
                <<"Deleted reservation for ">>
                  \o Coalesce(Prop(deleted, "name"),
                              Coalesce(typedInput.name, <<"guest">>))
                  \o <<" (">>
                  \o Coalesce(Prop(deleted, "mobile"),
                              Coalesce(typedInput.mobile, <<"mobile">>))
                  \o <<").">>,
                deleted)

Tools == {"createReservation", "getReservation", "updateReservation", "deleteReservation"}

\* The service call each handler awaits first.
ServiceCall(tool, e, input) ==
    CASE tool = "createReservation" -> createReservation(e, input)
      [] tool = "getReservation" -> getReservation(e, input)
      [] tool = "updateReservation" -> updateReservation(e, input)
      [] OTHER -> deleteReservation(e, input)

\* The rest of each handler, from the service's result to the envelope.
HandlerReturn(tool, input, result) ==
    CASE tool = "createReservation" -> createHandler(input, result)
      [] tool = "getReservation" -> getHandler(input, result)
      [] tool = "updateReservation" -> updateHandler(input, result)
      [] OTHER -> deleteHandler(input, result)

-----------------------------------------------------------------------------
(* src/tools/database-tools.ts, register-tools.ts: registration             *)

\* A McpServer: the names of its tools in registration order, the variant
\* that registered them and the third argument of the registration.
NoServer == [variant |-> "none", names |-> <<>>, arg |-> <<>>]

\* The default `{}` of _options, and the props a caller may pass instead.
NoOptions == <<"{}">>

Options == {NoOptions, <<"props">>}

registerThreeTools(names, e, options) ==
    names \o <<"createReservation", "updateReservation", "deleteReservation">>

\* registerDatabaseTools: four server.tool calls; neither env nor _options
\* is read while registering.
registerDatabaseTools(names, e, options) ==
    names \o <<"createReservation", "getReservation", "updateReservation",
               "deleteReservation">>

\* registerAllTools: registers the database tools and nothing else.
registerAllTools(names, e, options) == registerDatabaseTools(names, e, options)

-----------------------------------------------------------------------------
(* src/tools/database-tools-sentry.ts: the instrumented variant            *)

\* registerDatabaseToolsWithSentry: three server.tool calls.
registerDatabaseToolsWithSentry(names, e, props) ==
    names \o <<"createReservation", "updateReservation", "deleteReservation">>

\* The props argument: an object with login and email, or undefined when
\* the caller passes none (index_sentry.ts init passes server and env only).
SomeProps == <<"props">>

PropsValues == {Undefined, SomeProps}

\* The props of index_sentry.ts init(): registerDatabaseToolsWithSentry is
\* called with the server and the env only, so the parameter is undefined.
InitProps == Undefined

\* `\n\n**Event ID:** ${eventId}` with the id captureException returned.
EventId == <<"**Event ID:** ", "eventId">>

\* sentryErrorResponse(message, details) for a string message.
sentryErrorResponse(message, details) ==
    createErrorResponse(message \o EventId, details)

\* sentryErrorResponse(error) for a caught Error.
sentryUnexpectedError(error) ==
    createErrorResponse(<<"Unexpected error: ">> \o error \o EventId, JSUndefined)

createSentryHandler(input, result) ==
    IF ~result.success
    THEN sentryErrorResponse(
           <<"Failed to create reservation: ">> \o Str(result.error), result.data)
    ELSE LET created == FirstOrSelf(result.data) IN
         IF Not(created)
         THEN sentryErrorResponse(
                <<"Supabase returned no data after creating the reservation.">>,
                JSUndefined)
         ELSE createHandler(input, result)

updateSentryHandler(input, result) ==
    IF ~result.success
    THEN sentryErrorResponse(
           <<"Failed to update the reservation for ">> \o GuestAndMobile(input)
             \o <<": ">> \o Str(result.error),
           result.data)
    ELSE IF Not(FirstOrSelf(result.data))
    THEN sentryErrorResponse(
           <<"No reservation for ">> \o GuestAndMobile(input)
             \o <<" was updated. It may not exist.">>,
           result.data)
    ELSE updateHandler(input, result)

deleteSentryHandler(input, result) ==
    IF ~result.success
    THEN sentryErrorResponse(
           <<"Failed to delete the reservation for ">> \o GuestAndMobile(input)
             \o <<": ">> \o Str(result.error),
           result.data)
    ELSE IF Not(FirstOrSelf(result.data))
    THEN sentryErrorResponse(
           <<"No reservation for ">> \o GuestAndMobile(input)
             \o <<" was deleted. It may not exist.">>,
           result.data)
    ELSE deleteHandler(input, result)

\* The rest of each instrumented handler body, from the service's result
\* to the envelope.
SentryHandlerReturn(tool, input, result) ==
    CASE tool = "createReservation" -> createSentryHandler(input, result)
      [] tool = "updateReservation" -> updateSentryHandler(input, result)
      [] OTHER -> deleteSentryHandler(input, result)

TypeError == <<"Cannot read properties of undefined (reading 'login')">>

\* An exception of the handler body that runWithSentrySpan caught.
Caught(error) ==
    [kind |-> "caught", error |-> error, result |-> NoResult, request |-> NoRequest]

\* runWithSentrySpan up to the first suspension of the handler body: the
\* span attributes read props.login before the body runs, outside the try;
\* an exception of the body is caught.
runWithSentrySpan(props, started) ==
    IF props = Undefined THEN Thrown(TypeError)
    ELSE IF started.kind = "throw" THEN Caught(started.error)
    ELSE started

-----------------------------------------------------------------------------
(* The backend: the reservations table behind the REST interface           *)

\* The character an escape %hl stands for; "" when the model has no such
\* escape.
Unescape(h, l) ==
    CASE h = "2" /\ l = "6" -> "&"
      [] h = "3" /\ l = "D" -> "="
      [] h = "2" /\ l = "3" -> "#"
      [] h = "2" /\ l = "B" -> "+"
      [] h = "2" /\ l = "0" -> " "
      [] h = "2" /\ l = "5" -> "%"
      [] h = "3" /\ l = "A" -> ":"
      [] h = "4" /\ l = "0" -> "@"
      [] h = "3" /\ l = "F" -> "?"
      [] OTHER -> ""

RECURSIVE DecodeValue(_)
\* The server's decoding of a query value: escapes, and "+" for a space.
DecodeValue(s) ==
    IF s = <<>> THEN <<>>
    ELSE IF Head(s) = "%" /\ Len(s) >= 3 /\ Unescape(s[2], s[3]) # ""
    THEN <<Unescape(s[2], s[3])>> \o DecodeValue(SubSeq(s, 4, Len(s)))
    ELSE IF Head(s) = "+" THEN <<" ">> \o DecodeValue(Tail(s))
    ELSE <<Head(s)>> \o DecodeValue(Tail(s))

RECURSIVE SplitOn(_, _)
\* s.split(c)
SplitOn(s, c) ==
    LET i == FirstOf(s, c) IN
    IF i > Len(s) THEN <<s>>
    ELSE <<SubSeq(s, 1, i - 1)>> \o SplitOn(SubSeq(s, i + 1, Len(s)), c)

\* The query string of a request target ("" when it has no "?").
QueryOf(url) == SubSeq(url, FirstOf(url, "?") + 1, Len(url))

\* The parameters of a request target: key, and the raw value after the
\* first "=" (hasValue FALSE when the parameter has no "=").
Params(url) ==
    IF QueryOf(url) = <<>> THEN <<>>
    ELSE LET segs == SplitOn(QueryOf(url), "&") IN
         [i \in 1 .. Len(segs) |->
            LET seg == segs[i]
                eq == FirstOf(seg, "=")
            IN [key |-> SubSeq(seg, 1, eq - 1),
                hasValue |-> eq <= Len(seg),
                raw |-> SubSeq(seg, eq + 1, Len(seg))]]

Columns == {"mobile", "name", "date", "time"}

IsSelect(p) == p.key = <<"select">>

\* A filter parameter column=eq.value on a column of the table.
IsFilter(p) ==
    /\ Len(p.key) = 1 /\ p.key[1] \in Columns
    /\ p.hasValue /\ p.raw # <<>> /\ p.raw[1] = "eq."

\* The filters of a request target, as <<column, decoded value>>.
Filters(url) ==
    LET ps == Params(url)
        Keep(p) == IsFilter(p)
        fs == SelectSeq(ps, Keep)
    IN [i \in 1 .. Len(fs) |-> <<fs[i].key[1], DecodeValue(Tail(fs[i].raw))>>]

\* The server understands the target: every parameter is select or a filter.
WellFormedQuery(url) ==
    \A i \in 1 .. Len(Params(url)) :
        IsSelect(Params(url)[i]) \/ IsFilter(Params(url)[i])

\* The row satisfies every filter of the target.
Matches(row, url) ==
    \A i \in 1 .. Len(Filters(url)) :
        row[Filters(url)[i][1]] = Filters(url)[i][2]

\* The row a POST inserts.
RowOf(fields) ==
    [NoObj EXCEPT !.name = fields.name, !.mobile = fields.mobile,
                  !.date = fields.date, !.time = fields.time]

\* The row after a PATCH with the given body.
Patched(row, fields) ==
    [row EXCEPT !.name = Coalesce(fields.name, @),
                !.mobile = Coalesce(fields.mobile, @),
                !.date = Coalesce(fields.date, @),
                !.time = Coalesce(fields.time, @)]

\* The rows a request affects, in table order.
Affected(table, request) ==
    LET Hit(row) == Matches(row, request.url) IN SelectSeq(table, Hit)

\* The table after the request.
Applied(table, request) ==
    CASE request.method = "POST" -> Append(table, RowOf(request.body.fields))
      [] request.method = "PATCH" ->
            [i \in 1 .. Len(table) |->
                IF Matches(table[i], request.url)
                THEN Patched(table[i], request.body.fields) ELSE table[i]]
      [] request.method = "DELETE" ->
            LET Miss(row) == ~Matches(row, request.url) IN SelectSeq(table, Miss)
      [] OTHER -> table

\* The representation the server returns: the affected rows as they are
\* after the request (before it, for DELETE).
ReturnedRows(table, request) ==
    CASE request.method = "POST" -> <<RowOf(request.body.fields)>>
      [] request.method = "PATCH" ->
            LET hit == Affected(table, request) IN
            [i \in 1 .. Len(hit) |-> Patched(hit[i], request.body.fields)]
      [] OTHER -> Affected(table, request)

-----------------------------------------------------------------------------
(* Inputs and environments the model draws                                 *)

N1 == <<"A">>

N2 == <<"B">>

M1 == <<"+", "1">>

M2 == <<"2">>

D1 == <<"5">>

D2 == <<"6">>

T1 == <<"9", ":", "0">>

GoodEmail == <<"a", "@", "b", ".", "c", "c">>

BadEmail == <<"a", "b">>

BaseUrl == <<"https:", "/", "/", "x.co">>

ServiceKey == <<"k">>

Envs ==
    [SUPABASE_URL : {Undefined, <<>>, BaseUrl, BaseUrl \o <<"/">>},
     SUPABASE_SERVICE_ROLE_KEY : {Undefined, ServiceKey}]

\* The inputs that differ from base in at most one key.
OneOff(base, values) ==
    {base} \cup UNION {{[base EXCEPT ![key] = v] : v \in values[key]} :
                          key \in DOMAIN values}

NbValues ==
    {Undefined, <<"number", "4">>, <<"string", "4">>, <<"number", "0">>,
     <<"string", "abc">>, <<"number", "2.5">>, <<"string", "">>}

BaseCreate ==
    [NoInput EXCEPT !.mobile = M1, !.name = N1,
                    !.nb_people = <<"number", "4">>, !.date = D1, !.time = T1]

CreateInputs ==
    OneOff(BaseCreate,
      [mobile |-> {Undefined, <<>>, M2},
       name |-> {Undefined, <<>>, N2, <<Surrogate>>},
       nb_people |-> NbValues,
       date |-> {Undefined, <<>>, D2},
       time |-> {Undefined, <<>>},
       email |-> {GoodEmail, BadEmail},
       notes |-> {<<"n">>, <<LongRun, "x">>, <<LongRun, "x", "x">>}])

BaseGet == [NoInput EXCEPT !.mobile = M1, !.name = N1]

GetInputs ==
    {[BaseGet EXCEPT !.name = n, !.mobile = m, !.date = d, !.time = t] :
        n \in {N1, N2}, m \in {M1, M2}, d \in {Undefined, D1, D2},
        t \in {Undefined, T1}}
    \cup OneOff(BaseGet,
           [mobile |-> {Undefined, <<>>},
            name |-> {Undefined, <<>>, <<Surrogate>>},
            date |-> {<<>>},
            time |-> {<<>>}])

BaseUpdate == [NoInput EXCEPT !.mobile = M1, !.name = N1]

UpdateInputs ==
    OneOff(BaseUpdate,
      [new_mobile |-> {M2, <<>>},
       new_name |-> {N2, <<>>},
       nb_people |-> NbValues,
       email |-> {GoodEmail, BadEmail},
       date |-> {D2, <<>>},
       time |-> {T1, <<>>},
       notes |-> {<<"n">>, <<LongRun, "x", "x">>}])
    \cup OneOff([BaseUpdate EXCEPT !.date = D2],
           [mobile |-> {Undefined, <<>>, M2},
            name |-> {Undefined, <<>>, N2, <<Surrogate>>},
            new_name |-> {N2},
            new_mobile |-> {M2},
            time |-> {T1}])
    \cup {[BaseUpdate EXCEPT !.name = N2, !.new_name = N1],
          [BaseUpdate EXCEPT !.new_name = N2, !.new_mobile = M2],
          [BaseUpdate EXCEPT !.new_mobile = M2, !.new_name = N2,
                             !.nb_people = <<"string", "4">>,
                             !.email = GoodEmail, !.date = D2, !.time = T1,
                             !.notes = <<"n">>],
          [BaseUpdate EXCEPT !.date = D2, !.extra = <<"x">>],
          [BaseUpdate EXCEPT !.extra = <<"x">>]}

DeleteInputs ==
    OneOff([NoInput EXCEPT !.mobile = M1, !.name = N1],
      [mobile |-> {Undefined, <<>>, M2, <<Surrogate>>},
       name |-> {Undefined, <<>>, N2}])

InputsOf(tool) ==
    CASE tool = "createReservation" -> CreateInputs
      [] tool = "getReservation" -> GetInputs
      [] tool = "updateReservation" -> UpdateInputs
      [] OTHER -> DeleteInputs

StatusText == <<"Bad Request">>

BackendMessage == <<"duplicate key value violates unique constraint">>

FetchFailed == <<"fetch failed">>

\* The longest array a response carries.
MaxReturned == 2

\* The most rows the table holds.
MaxRows == 2

Row(n, m, d, t) ==
    [NoObj EXCEPT !.name = n, !.mobile = m, !.date = d, !.time = t]

\* Objects a response array carries: two rows and the empty object.
ReturnedObjects == {Row(N1, M1, D1, T1), Row(N2, M2, D2, T1), NoObj}

\* The sequences over S of length at most n.
SeqsUpTo(S, n) == UNION {[1 .. k -> S] : k \in 0 .. n}

\* The body texts of a response, of either status.
Texts ==
    {EmptyText, InvalidText, JsonText(JSFalsy), JsonText(JSTruthy),
     JsonText(JSObject(NoObj)),
     JsonText(JSObject(Row(N2, M2, D2, T1))),
     JsonText(JSObject([NoObj EXCEPT !.message = BackendMessage]))}
    \cup {JsonText(JSArray(rows)) : rows \in SeqsUpTo(ReturnedObjects, MaxReturned)}

\* Inputs of the calls made against the table.
TableInputsOf(tool) ==
    CASE tool = "createReservation" ->
            {BaseCreate, [BaseCreate EXCEPT !.name = N2],
             [BaseCreate EXCEPT !.date = D2]}
      [] tool = "getReservation" ->
            {[BaseGet EXCEPT !.name = n, !.date = d] :
                n \in {N1, N2}, d \in {Undefined, D1}}
      [] tool = "updateReservation" ->
            {[BaseUpdate EXCEPT !.new_name = N2],
             [BaseUpdate EXCEPT !.new_mobile = M2],
             [BaseUpdate EXCEPT !.new_name = N2, !.new_mobile = M2],
             [BaseUpdate EXCEPT !.date = D2],
             [BaseUpdate EXCEPT !.name = N2, !.date = D2],
             [BaseUpdate EXCEPT !.nb_people = <<"number", "2">>]}
      [] OTHER ->
            {[NoInput EXCEPT !.mobile = m, !.name = n] :
                n \in {N1, N2}, m \in {M1, M2}}

-----------------------------------------------------------------------------
(* The state machine                                                       *)

NoPair == <<>>

Idle ==
    [pc |-> "idle", tool |-> "", input |-> NoInput, calls |-> 0,
     request |-> NoRequest, outcome |-> FetchRejected(<<>>),
     result |-> NoResult, envelope |-> NoEnvelope, error |-> <<>>,
     served |-> FALSE, repeat |-> FALSE, spanEnds |-> 0]

\* The worker before init(): the McpServer is constructed, no tool is
\* registered.
Init ==
    /\ env \in Envs
    /\ db = <<>>
    /\ inv = Idle
    /\ lastDelete = NoPair
    /\ server = NoServer
    /\ pending = <<>>

\* index.ts init(): registerAllTools registers the database tools. The
\* third argument registerDatabaseTools receives is whatever the caller
\* passes in that position.
Register(options) ==
    /\ server.variant = "none"
    /\ server' = [variant |-> "plain",
                  names |-> registerAllTools(server.names, env, options),
                  arg |-> options]
    /\ UNCHANGED <<env, db, inv, lastDelete, pending>>

\* The tool is registered on the server.
Registered(tool) == \E i \in 1 .. Len(server.names) : server.names[i] = tool

\* The handler registered under the name, up to its first suspension: the
\* plain handler awaits the service call; the instrumented one runs it
\* inside runWithSentrySpan.
HandlerStart(tool, input) ==
    IF server.variant = "sentry"
    THEN runWithSentrySpan(server.arg, ServiceCall(tool, env, input))
    ELSE ServiceCall(tool, env, input)

EnvelopeCached(tool, input, result) ==
    IF pending # <<>> /\ pending[1].pc = "returned"
    THEN pending[1].envelope
    ELSE HandlerReturn(tool, input, result)

\* The envelope the registered handler builds from the service's result.
Envelope(tool, input, result) ==
    IF server.variant = "sentry"
    THEN SentryHandlerReturn(tool, input, result)
    ELSE HandlerReturn(tool, input, result)

\* fetch is called once where the service reaches `await fetch(...)`.
FetchCalls(started) == IF started.kind = "fetch" THEN 1 ELSE 0

\* span.end() calls up to the first suspension: the finally of
\* runWithSentrySpan runs when the handler body ended, with a response or
\* with a caught exception; no span exists when evaluating props.login
\* threw, nor in the plain variant.
SpanEndsAtStart(started) ==
    IF server.variant = "sentry" /\ started.kind \in {"result", "caught"}
    THEN 1 ELSE 0

\* span.end() in the finally once the awaited handler body has ended.
SpanEndsAtReturn == IF server.variant = "sentry" THEN 1 ELSE 0

\* A client calls a tool handler: the handler runs to its first suspension
\* (the fetch) or to its end (a thrown exception, or the envelope of a
\* failure found before any request).
StartedCall(tool, input, again) ==
    LET started == HandlerStart(tool, input) IN
    [Idle EXCEPT
       !.pc = CASE started.kind = "throw" -> "threw"
                [] started.kind \in {"result", "caught"} -> "returned"
                [] OTHER -> "awaiting",
       !.tool = tool,
       !.input = input,
       !.calls = FetchCalls(started),
       !.request = started.request,
       !.result = started.result,
       !.error = started.error,
       !.envelope =
          CASE started.kind = "result" -> Envelope(tool, input, started.result)
            [] started.kind = "caught" -> sentryUnexpectedError(started.error)
            [] OTHER -> NoEnvelope,
       !.repeat = again,
       !.spanEnds = SpanEndsAtStart(started)]

\* One handler runs at a time: a client calls a tool and waits for it.
Invoke(tool, input) ==
    /\ inv.pc = "idle"
    /\ LET again == tool = "deleteReservation"
                      /\ lastDelete = <<input.name, input.mobile>>
       IN /\ inv' = StartedCall(tool, input, again)
          /\ lastDelete' = IF again THEN lastDelete ELSE NoPair
    /\ UNCHANGED <<env, db, server, pending>>

\* The awaited fetch settles with outcome and the handler runs to its end.
SettledCall(call, outcome, served) ==
    LET result == supabaseRequestResult(outcome) IN
    [call EXCEPT !.pc = "returned",
                 !.outcome = outcome,
                 !.result = result,
                 !.envelope = Envelope(call.tool, call.input, result),
                 !.served = served,
                 !.spanEnds = @ + SpanEndsAtReturn]

Settle(outcome, served) == inv' = SettledCall(inv, outcome, served)

\* The backend answers with some status and some body.
BackendAnswers(ok, text) ==
    /\ inv.pc = "awaiting"
    /\ Settle(Response(ok, IF ok THEN <<"OK">> ELSE StatusText, text), FALSE)
    /\ lastDelete' = NoPair
    /\ UNCHANGED <<env, db, server, pending>>

\* fetch rejects: the request never reached the backend.
FetchFails ==
    /\ inv.pc = "awaiting"
    /\ Settle(FetchRejected(FetchFailed), FALSE)
    /\ lastDelete' = NoPair
    /\ UNCHANGED <<env, db, server, pending>>

\* response.text() rejects.
TextFails ==
    /\ inv.pc = "awaiting"
    /\ Settle(TextRejected(FetchFailed), FALSE)
    /\ lastDelete' = NoPair
    /\ UNCHANGED <<env, db, server, pending>>

\* The caller has the envelope (or the exception); the next call may start.
Return ==
    /\ inv.pc \in {"returned", "threw"}
    /\ inv' = Idle
    /\ UNCHANGED <<env, db, lastDelete, server, pending>>

\* A client calls a tool with one of the inputs.
Call ==
    /\ inv.pc = "idle"
    /\ \E tool \in Tools :
          Registered(tool) /\ \E input \in InputsOf(tool) : Invoke(tool, input)

\* The backend answers the pending request with any status and body.
Answer ==
    /\ inv.pc = "awaiting"
    /\ \E ok \in BOOLEAN : \E text \in Texts : BackendAnswers(ok, text)

\* Any call against a backend that may answer anything.
Next ==
    \/ \E options \in Options : Register(options)
    \/ Call
    \/ Answer
    \/ FetchFails
    \/ TextFails
    \/ Return

Spec == Init /\ [][Next]_vars

\* index_sentry.ts init(): registerDatabaseToolsWithSentry registers the
\* instrumented tools.
RegisterSentry(props) ==
    /\ server.variant = "none"
    /\ server' = [variant |-> "sentry",
                  names |-> registerDatabaseToolsWithSentry(server.names, env, props),
                  arg |-> props]
    /\ UNCHANGED <<env, db, inv, lastDelete, pending>>

\* The worker of index_sentry.ts: any call of an instrumented tool against
\* a backend that may answer anything.
NextSentry ==
    \/ \E props \in PropsValues : RegisterSentry(props)
    \/ Call
    \/ Answer
    \/ FetchFails
    \/ TextFails
    \/ Return

SpecSentry == Init /\ [][NextSentry]_vars

\* The backend serves the request as its REST contract says: it applies it
\* to the table and returns the affected rows.
BackendServe ==
    /\ inv.pc = "awaiting"
    /\ WellFormedQuery(inv.request.url)
    /\ inv.request.method = "POST" => Len(db) < MaxRows
    /\ Settle(Response(TRUE, <<"OK">>,
                       JsonText(JSArray(ReturnedRows(db, inv.request)))), TRUE)
    /\ db' = Applied(db, inv.request)
    /\ lastDelete' =
         IF inv.request.method = "DELETE" /\ Len(Affected(db, inv.request)) = 1
         THEN <<inv.input.name, inv.input.mobile>> ELSE NoPair
    /\ UNCHANGED <<env, server, pending>>

\* The backend refuses the request and leaves the table as it is.
BackendRefuses ==
    BackendAnswers(FALSE, JsonText(JSObject([NoObj EXCEPT !.message = BackendMessage])))

\* A client calls a tool with one of the inputs drawn for the table.
CallTable ==
    /\ inv.pc = "idle"
    /\ \E tool \in Tools :
          Registered(tool) /\ \E input \in TableInputsOf(tool) : Invoke(tool, input)

\* Calls made one after the other against the table.
NextTable ==
    \/ CallTable
    \/ BackendServe
    \/ BackendRefuses
    \/ FetchFails
    \/ Return

\* A configured worker after init(): the tools are registered.
InitTable ==
    /\ env = [SUPABASE_URL |-> BaseUrl, SUPABASE_SERVICE_ROLE_KEY |-> ServiceKey]
    /\ db = <<>>
    /\ inv = Idle
    /\ lastDelete = NoPair
    /\ server = [variant |-> "plain",
                 names |-> registerAllTools(<<>>, env, NoOptions),
                 arg |-> NoOptions]
    /\ pending = <<>>

SpecTable == InitTable /\ [][NextTable]_vars

\* The characters of the names and mobiles drawn for request targets.
UrlChars == {"A", "&", "=", "#", "+", " ", "%", "?"}

\* The longest name drawn for a request target.
MaxLen == 2

\* Inputs of the calls whose request target is examined: every name up to
\* MaxLen characters and every mobile up to one character.
UrlInputsOf(tool) ==
    LET pairs == {[NoInput EXCEPT !.name = n, !.mobile = m] :
                     n \in SeqsUpTo(UrlChars, MaxLen), m \in SeqsUpTo(UrlChars, 1)}
    IN CASE tool = "updateReservation" -> {[p EXCEPT !.new_name = N2] : p \in pairs}
         [] tool = "deleteReservation" -> pairs
         [] tool = "getReservation" ->
               {[p EXCEPT !.date = d, !.time = t] :
                   p \in pairs, d \in {Undefined, D1}, t \in {Undefined, T1}}
         [] OTHER -> {}

\* A client calls update, delete or lookup with any name and mobile.
CallUrl ==
    /\ inv.pc = "idle"
    /\ \E tool \in Tools :
          Registered(tool) /\ \E input \in UrlInputsOf(tool) : Invoke(tool, input)

\* Calls with any name and mobile; the request target is complete when
\* fetch is called, whatever becomes of the request afterwards.
NextUrl ==
    \/ CallUrl
    \/ FetchFails
    \/ Return

SpecUrl == InitTable /\ [][NextUrl]_vars

\* The most invocations in flight at once.
MaxCalls == 2

Callers == 1 .. MaxCalls

\* Inputs of the concurrent calls: all address the pair (N1, M1) but the
\* create, which adds a reservation under another name.
ConcInputsOf(tool) ==
    CASE tool = "createReservation" -> {[BaseCreate EXCEPT !.name = N2]}
      [] tool = "getReservation" -> {BaseGet}
      [] tool = "updateReservation" -> {[BaseUpdate EXCEPT !.date = D2]}
      [] OTHER -> {[NoInput EXCEPT !.mobile = M1, !.name = N1]}

\* Caller i invokes a tool while other invocations may be in flight: each
\* invocation has its own handler activation.
StartC(i, tool, input) ==
    /\ pending[i].pc = "idle"
    /\ Registered(tool)
    /\ pending' = [pending EXCEPT ![i] = StartedCall(tool, input, FALSE)]
    /\ UNCHANGED <<env, db, inv, lastDelete, server>>

\* The backend serves the request of invocation i.
ServeC(i) ==
    /\ pending[i].pc = "awaiting"
    /\ WellFormedQuery(pending[i].request.url)
    /\ pending[i].request.method = "POST" => Len(db) < MaxRows
    /\ pending' = [pending EXCEPT ![i] =
                     SettledCall(pending[i],
                       Response(TRUE, <<"OK">>,
                         JsonText(JSArray(ReturnedRows(db, pending[i].request)))),
                       TRUE)]
    /\ db' = Applied(db, pending[i].request)
    /\ UNCHANGED <<env, inv, lastDelete, server>>

\* The backend refuses the request of invocation i.
RefuseC(i) ==
    /\ pending[i].pc = "awaiting"
    /\ pending' = [pending EXCEPT ![i] =
                     SettledCall(pending[i],
                       Response(FALSE, StatusText,
                         JsonText(JSObject([NoObj EXCEPT !.message = BackendMessage]))),
                       FALSE)]
    /\ UNCHANGED <<env, db, inv, lastDelete, server>>

\* The fetch of invocation i rejects.
FailC(i) ==
    /\ pending[i].pc = "awaiting"
    /\ pending' = [pending EXCEPT ![i] =
                     SettledCall(pending[i], FetchRejected(FetchFailed), FALSE)]
    /\ UNCHANGED <<env, db, inv, lastDelete, server>>

\* Invocations in any interleaving; a request no action settles hangs.
NextConc ==
    \E i \in Callers :
        \/ \E tool \in Tools : \E input \in ConcInputsOf(tool) : StartC(i, tool, input)
        \/ ServeC(i)
        \/ RefuseC(i)
        \/ FailC(i)

\* A configured worker after init(), the table holding one reservation.
InitConc ==
    /\ env = [SUPABASE_URL |-> BaseUrl, SUPABASE_SERVICE_ROLE_KEY |-> ServiceKey]
    /\ db = <<Row(N1, M1, D1, T1)>>
    /\ inv = Idle
    /\ lastDelete = NoPair
    /\ server = [variant |-> "plain",
                 names |-> registerAllTools(<<>>, env, NoOptions),
                 arg |-> NoOptions]
    /\ pending = [i \in Callers |-> Idle]

SpecConc == InitConc /\ [][NextConc]_vars

-----------------------------------------------------------------------------
(* Properties                                                              *)

StartsWith(s, prefix) ==
    Len(s) >= Len(prefix) /\ SubSeq(s, 1, Len(prefix)) = prefix

Contains(s, sub) ==
    \E i \in 0 .. (Len(s) - Len(sub)) : SubSeq(s, i + 1, i + Len(sub)) = sub

\* The call has started (and possibly ended).
Called == inv.pc # "idle"

\* The call has ended with an envelope after a response arrived.
Answered == inv.pc = "returned" /\ inv.outcome.kind = "response"

\* Both configuration values are set.
Configured ==
    /\ env.SUPABASE_URL \notin {Undefined, <<>>}
    /\ env.SUPABASE_SERVICE_ROLE_KEY \notin {Undefined, <<>>}

\* The input passes the schema of the tool.
ValidInput(tool, input) ==
    CASE tool = "createReservation" -> CreateReservationSchema(input).success
      [] tool = "getReservation" -> GetReservationSchema(input).success
      [] tool = "updateReservation" -> UpdateReservationSchema(input).success
      [] OTHER -> DeleteReservationSchema(input).success

\* An update that names the reservation and supplies nothing to change.
NoOpUpdate(input) ==
    /\ mobileField(input.mobile) /\ nameField(input.name)
    /\ \A key \in {"new_mobile", "new_name", "nb_people", "email", "date",
                   "time", "notes"} : input[key] = Undefined

\* C1: a create, update or delete call whose input fails the schema, and in
\* particular every update that supplies mobile and name and none of the
\* optional fields, ends without any fetch call.
C1_InvalidInputNoFetch ==
    (Called /\ inv.tool \in {"createReservation", "updateReservation",
                             "deleteReservation"}
       /\ (~ValidInput(inv.tool, inv.input)
             \/ (inv.tool = "updateReservation" /\ NoOpUpdate(inv.input))))
    => (inv.calls = 0 /\ inv.pc = "threw" /\ inv.request = NoRequest)

C1_Witness ==
    /\ inv.tool = "updateReservation" /\ NoOpUpdate(inv.input)
    /\ inv.pc = "threw" /\ inv.calls = 0 /\ Configured

\* C2: every call of a handler ends with an envelope; no exception leaves
\* the handler.
C2_NeverThrows == inv.pc # "threw"

\* C3: no call fetches more than once, and a call with valid input and
\* both configuration values set fetches exactly once.
C3_ExactlyOneFetch ==
    /\ inv.calls <= 1
    /\ (Called /\ ValidInput(inv.tool, inv.input) /\ Configured) => inv.calls = 1

\* The message of the empty-result envelope of a lookup: the guest and the
\* mobile of the input, then the qualifiers the caller supplied.
LookupNoReservation(input) ==
    <<"**Error**", "No reservation for ">> \o input.name \o <<" (">>
        \o input.mobile \o <<")">>
        \o (IF input.date # Undefined THEN <<" ", "on ">> \o input.date ELSE <<>>)
        \o (IF input.time # Undefined THEN <<" ", "at ">> \o input.time ELSE <<>>)
        \o <<".">>

\* The backend answered with a success status and no row.
ZeroRows ==
    /\ Answered /\ inv.outcome.ok
    /\ inv.outcome.text \in {EmptyText, JsonText(JSArray(<<>>))}

\* C4: for update, delete and lookup, a success status with zero rows gives
\* an error envelope whose message starts with 'No reservation for <name>
\* (<mobile>)' of the input; for lookup it then names exactly the supplied
\* qualifiers.
C4_ZeroRowsIsError ==
    (ZeroRows /\ inv.tool # "createReservation")
    => /\ inv.envelope.isError
       /\ StartsWith(inv.envelope.text,
                     <<"**Error**", "No reservation for ">> \o inv.input.name
                       \o <<" (">> \o inv.input.mobile \o <<")">>)
       /\ inv.tool = "getReservation"
            => inv.envelope.text = LookupNoReservation(inv.input)

C4_Witness ==
    /\ ZeroRows /\ inv.tool = "getReservation"
    /\ inv.input.date = Undefined /\ inv.input.time # Undefined
    /\ inv.envelope.isError

\* The rows of the table that carry the pair of the input.
Carrying(table, input) ==
    {i \in 1 .. Len(table) :
        table[i].name = input.name /\ table[i].mobile = input.mobile}

NoReservationFor(input) ==
    <<"**Error**", "No reservation for ">> \o input.name \o <<" (">>
        \o input.mobile \o <<")">>

\* The backend serves the pending call in this step.
ServedStep == inv.pc = "awaiting" /\ inv'.pc = "returned" /\ inv'.served

\* C5: a delete served while the table holds exactly one reservation with
\* its pair returns a success envelope and leaves no such reservation; the
\* same delete called next, nothing in between, returns the 'No reservation
\* for ...' error envelope and leaves the table as the first call left it.
C5_DeleteTwice ==
    [][(ServedStep /\ inv.tool = "deleteReservation")
       => /\ Cardinality(Carrying(db, inv.input)) = 1
               => /\ ~inv'.envelope.isError
                  /\ Carrying(db', inv.input) = {}
                  /\ lastDelete' = <<inv.input.name, inv.input.mobile>>
          /\ inv.repeat
               => /\ inv'.envelope.isError
                  /\ StartsWith(inv'.envelope.text, NoReservationFor(inv.input))
                  /\ db' = db]_vars

C5_Witness ==
    /\ inv.pc = "returned" /\ inv.tool = "deleteReservation"
    /\ inv.repeat /\ inv.served /\ inv.envelope.isError /\ db # <<>>

\* The backend answered with a non-success status and a JSON object that
\* has a message.
RejectedWithMessage ==
    /\ Answered /\ ~inv.outcome.ok
    /\ inv.outcome.text.k = "json"
    /\ inv.outcome.text.value.t = "object"
    /\ inv.outcome.text.value.obj.message # Undefined

\* The text each handler puts before the error of a failed service call.
FailedTo(tool) ==
    CASE tool = "createReservation" -> "Failed to create reservation: "
      [] tool = "getReservation" -> "Failed to get the reservation for "
      [] tool = "updateReservation" -> "Failed to update the reservation for "
      [] OTHER -> "Failed to delete the reservation for "

\* C6: a non-success status with a JSON object body that has a message
\* gives, for each of the four tools, an error envelope whose text holds
\* the tool's 'Failed to ...' prefix and the backend's message, with the
\* parsed body as details.
C6_RejectionIsReported ==
    RejectedWithMessage
    => /\ inv.envelope.isError
       /\ StartsWith(inv.envelope.text, <<"**Error**", FailedTo(inv.tool)>>)
       /\ Contains(inv.envelope.text, inv.outcome.text.value.obj.message)
       /\ inv.envelope.block = "Details"
       /\ inv.envelope.json = inv.outcome.text.value

C6_Witness ==
    /\ RejectedWithMessage /\ inv.tool = "updateReservation"
    /\ inv.envelope.isError
    /\ Contains(inv.envelope.text, BackendMessage)

\* The backend answered with a success status and an array of n >= 1 rows.
SomeRows ==
    /\ Answered /\ inv.outcome.ok
    /\ inv.outcome.text.k = "json"
    /\ inv.outcome.text.value.t = "array"
    /\ inv.outcome.text.value.rows # <<>>

RowsReturned == inv.outcome.text.value.rows

\* C7: for create, a success status with a non-empty array gives, after
\* exactly one fetch, a success envelope with the message 'Created
\* reservation for <name> on <date> at <time>' of the first record (the
\* fallback words where the record lacks the field) and that record as the
\* payload.
C7_CreateSucceeds ==
    (SomeRows /\ inv.tool = "createReservation")
    => LET first == RowsReturned[1] IN
       /\ ~inv.envelope.isError
       /\ inv.envelope.text =
            <<"**Success**", "Created reservation for ">>
              \o (IF first.name # Undefined THEN first.name ELSE <<"guest">>)
              \o <<" on ">>
              \o (IF first.date # Undefined THEN first.date ELSE <<"unknown date">>)
              \o <<" at ">>
              \o (IF first.time # Undefined THEN first.time ELSE <<"unknown time">>)
              \o <<".">>
       /\ inv.envelope.block = "Result"
       /\ inv.envelope.json = JSObject(first)
       /\ inv.calls = 1

C7_Witness ==
    /\ SomeRows /\ inv.tool = "createReservation"
    /\ Len(RowsReturned) = 2 /\ RowsReturned[1] # RowsReturned[2]
    /\ RowsReturned[1].name = N1
    /\ ~inv.envelope.isError

\* The validated record of a create input: the input with nb_people as a
\* number.
ValidatedRecord(input) == [input EXCEPT !.nb_people = <<"number", @[2]>>]

\* C8: every valid create input, the configuration set, sends one POST to
\* <base URL>/rest/v1/reservations, without a query string, whether or not
\* the configured base URL ends with a slash; the body is an array of one
\* element, the validated record with nb_people a number.
C8_CreateRequest ==
    (Called /\ inv.tool = "createReservation"
       /\ ValidInput(inv.tool, inv.input) /\ Configured)
    => /\ inv.calls = 1
       /\ inv.request.method = "POST"
       /\ inv.request.url = BaseUrl \o <<"/", "rest", "/", "v1", "/", "reservations">>
       /\ inv.request.body.kind = "array"
       /\ inv.request.body.fields.nb_people[1] = "number"
       /\ inv.request.body.fields = ValidatedRecord(inv.input)

C8_Witness ==
    /\ inv.tool = "createReservation" /\ inv.pc = "awaiting"
    /\ env.SUPABASE_URL = BaseUrl \o <<"/">>
    /\ inv.input.nb_people = <<"string", "4">>
    /\ inv.request.body.fields.nb_people = <<"number", "4">>

\* C10: a lookup answered with n >= 1 records: n = 1 gives the message
\* 'Found reservation for ...' and the record itself as payload; n >= 2
\* gives 'Found n reservations for ...' and the whole list as payload.
C10_LookupCount ==
    (SomeRows /\ inv.tool = "getReservation")
    => LET n == Len(RowsReturned) IN
       /\ ~inv.envelope.isError
       /\ inv.envelope.block = "Result"
       /\ n = 1 => /\ StartsWith(inv.envelope.text,
                                 <<"**Success**", "Found ", "reservation", " for ">>)
                   /\ inv.envelope.json = JSObject(RowsReturned[1])
       /\ n >= 2 => /\ StartsWith(inv.envelope.text,
                                  <<"**Success**", "Found ", ToString(n),
                                    " reservations", " for ">>)
                    /\ inv.envelope.json = JSArray(RowsReturned)

C10_Witness ==
    /\ SomeRows /\ inv.tool = "getReservation" /\ Len(RowsReturned) = 2
    /\ StartsWith(inv.envelope.text, <<"**Success**", "Found ", "2", " reservations">>)

\* The request target up to its query string.
PathOf(url) == SubSeq(url, 1, FirstOf(url, "?") - 1)

FilterSet(url) == {Filters(url)[i] : i \in 1 .. Len(Filters(url))}

\* The characters that would end or split a parameter if left unescaped.
Delimiters == {"&", "=", "#", "+", " ", "?"}

\* The filters a call is to send: the current mobile and name, and for a
\* lookup the date and the time when supplied.
ExpectedFilters(tool, input) ==
    {<<"mobile", input.mobile>>, <<"name", input.name>>}
    \cup (IF tool = "getReservation" /\ input.date # Undefined
          THEN {<<"date", input.date>>} ELSE {})
    \cup (IF tool = "getReservation" /\ input.time # Undefined
          THEN {<<"time", input.time>>} ELSE {})

\* C9: the request of every update, delete and lookup goes to the
\* reservations resource with exactly the filters mobile=eq.<mobile> and
\* name=eq.<name> of the current values, percent-encoded, plus date and
\* time for a lookup that supplies them; a lookup is a GET with select=*.
\* No character of mobile or name adds, removes or alters a parameter.
C9_FiltersAreExact ==
    (inv.pc = "awaiting" /\ inv.tool # "createReservation")
    => LET url == inv.request.url
           ps == Params(url)
           lookup == inv.tool = "getReservation"
       IN /\ PathOf(url) = BaseUrl \o <<"/", "rest", "/", "v1", "/", "reservations">>
          /\ FilterSet(url) = ExpectedFilters(inv.tool, inv.input)
          /\ Len(Filters(url)) = Cardinality(ExpectedFilters(inv.tool, inv.input))
          /\ Len(ps) = Len(Filters(url)) + (IF lookup THEN 1 ELSE 0)
          /\ \A i \in 1 .. Len(ps) :
                /\ IsFilter(ps[i]) \/ (lookup /\ IsSelect(ps[i]) /\ ps[i].raw = <<"*">>)
                /\ IsFilter(ps[i]) =>
                      \A k \in 2 .. Len(ps[i].raw) : ps[i].raw[k] \notin Delimiters
          /\ lookup => inv.request.method = "GET" /\ \E i \in 1 .. Len(ps) : IsSelect(ps[i])
          /\ inv.tool = "updateReservation" => inv.request.method = "PATCH"
          /\ inv.tool = "deleteReservation" => inv.request.method = "DELETE"

C9_Witness ==
    /\ inv.pc = "awaiting" /\ inv.tool = "deleteReservation"
    /\ inv.input.name = <<"A", "&">> /\ inv.input.mobile = <<"+">>
    /\ Len(Params(inv.request.url)) = 2

NameSet(names) == {names[i] : i \in 1 .. Len(names)}

\* The message of an envelope text without a trailing Event ID.
StripEventId(text) ==
    IF Len(text) >= 2 /\ SubSeq(text, Len(text) - 1, Len(text)) = EventId
    THEN SubSeq(text, 1, Len(text) - 2) ELSE text

\* The envelope the plain handler of the same name returns for the input
\* and the outcome of the call.
PlainEnvelope ==
    LET started == ServiceCall(inv.tool, env, inv.input) IN
    IF started.kind = "result"
    THEN HandlerReturn(inv.tool, inv.input, started.result)
    ELSE HandlerReturn(inv.tool, inv.input, supabaseRequestResult(inv.outcome))

\* The plain handler returns an envelope for the call.
PlainReturns ==
    LET started == ServiceCall(inv.tool, env, inv.input) IN
    \/ started.kind = "result"
    \/ started.kind = "fetch" /\ inv.pc = "returned" /\ inv.calls = 1

\* C12: the instrumented registration exposes the tool names of the plain
\* registration, and each instrumented handler returns, for the input and
\* backend response for which the plain handler returns an envelope, an
\* envelope with the same error flag and the same message apart from the
\* Event ID.
C12_SentrySameAsPlain ==
    server.variant = "sentry"
    => /\ NameSet(server.names) = NameSet(registerDatabaseTools(<<>>, env, NoOptions))
       /\ (inv.pc \in {"returned", "threw"} /\ PlainReturns)
            => /\ inv.pc = "returned"
               /\ inv.envelope.isError = PlainEnvelope.isError
               /\ StripEventId(inv.envelope.text) = PlainEnvelope.text

\* C13: the message of every envelope a handler returns holds the guest
\* name and the mobile number of the input, or the words 'unknown guest'
\* and 'unknown mobile' where the input lacks them.
C13_MessageNamesGuest ==
    inv.pc = "returned"
    => /\ Contains(inv.envelope.text, Coalesce(inv.input.name, <<"unknown guest">>))
       /\ Contains(inv.envelope.text, Coalesce(inv.input.mobile, <<"unknown mobile">>))

\* Invocation i ends in this step, its request settled.
EndsC(i) == pending[i].pc = "awaiting" /\ pending'[i].pc = "returned"

\* C14: in every interleaving a step of one invocation changes no other
\* invocation; the envelope an invocation returns is the handler's function
\* of its own input and the outcome of its own single request; and an
\* invocation whose request has not completed keeps no other invocation
\* from starting or from ending.
C14_Independent ==
    /\ [][\A i \in Callers :
            /\ pending'[i] # pending[i]
                 => \A j \in Callers \ {i} : pending'[j] = pending[j]
            /\ EndsC(i)
                 => /\ pending'[i].envelope =
                         HandlerReturn(pending[i].tool, pending[i].input,
                                       supabaseRequestResult(pending'[i].outcome))
                    /\ pending'[i].input = pending[i].input
                    /\ pending'[i].calls = 1]_vars
    /\ [](\A i \in Callers : \A j \in Callers \ {i} :
            pending[i].pc = "awaiting"
            => /\ pending[j].pc = "awaiting" => ENABLED FailC(j)
               /\ pending[j].pc = "idle"
                    => ENABLED StartC(j, "getReservation", BaseGet))

C14_Witness ==
    /\ pending # <<>>
    /\ pending[1].pc = "awaiting" /\ pending[1].tool = "deleteReservation"
    /\ pending[2].pc = "returned" /\ pending[2].tool = "deleteReservation"
    /\ pending[2].served /\ ~pending[2].envelope.isError

\* C15: with SUPABASE_URL or SUPABASE_SERVICE_ROLE_KEY absent, every call
\* with valid input ends as a failure result carrying the 'not configured'
\* message and no duration, reported in an error envelope, and no request
\* is built or sent.
C15_NotConfigured ==
    (Called /\ ValidInput(inv.tool, inv.input) /\ ~Configured)
    => /\ inv.pc = "returned"
       /\ inv.calls = 0
       /\ inv.request = NoRequest
       /\ ~inv.result.success
       /\ inv.result.error \in {UrlNotConfigured, KeyNotConfigured}
       /\ ~inv.result.duration
       /\ inv.envelope.isError
       /\ Contains(inv.envelope.text, inv.result.error)

\* C16: every envelope a handler returns has one text content item and is
\* either a success envelope (heading '**Success**', no error flag, a
\* Result block exactly when its data is defined) or an error envelope
\* (heading '**Error**', isError true, a Details block exactly when its
\* details are defined), never both and never neither.
C16_EnvelopeShape ==
    inv.pc = "returned"
    => LET e == inv.envelope IN
       /\ e.items = 1
       /\ e.text # <<>>
       /\ e.text[1] \in {"**Success**", "**Error**"}
       /\ e.isError <=> e.text[1] = "**Error**"
       /\ ~e.isError => (e.block = "Result" <=> e.json.t # "undefined")
                         /\ e.block \in {"Result", "none"}
       /\ e.isError => (e.block = "Details" <=> e.json.t # "undefined")
                        /\ e.block \in {"Details", "none"}

C16_Witness ==
    /\ inv.pc = "returned" /\ inv.outcome.kind = "fetchRejected" /\ inv.calls = 1
    /\ inv.envelope.isError /\ inv.envelope.block = "none"
    /\ inv.envelope.text[1] = "**Error**"

\* The call sent its request and the request failed: the transport failed
\* or the backend answered with a non-success status.
RequestFailed ==
    /\ inv.pc = "returned" /\ inv.calls = 1
    /\ \/ inv.outcome.kind \in {"fetchRejected", "textRejected"}
       \/ inv.outcome.kind = "response" /\ ~inv.outcome.ok

\* The message of the envelope begins with the given text.
MessageBegins(token) ==
    Len(inv.envelope.text) >= 2 /\ inv.envelope.text[2] = token

\* C17: for update, delete and lookup, the envelope of a success status
\* with zero rows has a message beginning 'No reservation for', the
\* envelope of a transport failure or a non-success status has a message
\* beginning 'Failed to', and neither message is produced for the other
\* condition.
C17_EmptyIsNotFailure ==
    (inv.pc = "returned" /\ inv.tool # "createReservation")
    => /\ ZeroRows => inv.envelope.isError /\ MessageBegins("No reservation for ")
       /\ RequestFailed => inv.envelope.isError /\ MessageBegins(FailedTo(inv.tool))
       /\ MessageBegins("No reservation for ") => ~RequestFailed
       /\ MessageBegins(FailedTo(inv.tool)) => ~ZeroRows

C17_Witness ==
    /\ RequestFailed /\ inv.tool = "deleteReservation"
    /\ inv.outcome.kind = "response"
    /\ inv.outcome.text = JsonText(JSArray(<<>>))
    /\ MessageBegins("Failed to delete the reservation for ")

\* The body of the response holds at least one row: a non-empty array, or
\* one record as a JSON object.
BodyHasRow(text) ==
    /\ text.k = "json"
    /\ \/ text.value.t = "array" /\ text.value.rows # <<>>
       \/ text.value.t = "object"

\* C18: a handler returns an envelope without the error flag only after
\* exactly one fetch that completed with a success status and a body
\* holding at least one row.
C18_SuccessOnlyWhenSucceeded ==
    (inv.pc = "returned" /\ ~inv.envelope.isError)
    => /\ inv.calls = 1
       /\ inv.outcome.kind = "response"
       /\ inv.outcome.ok
       /\ BodyHasRow(inv.outcome.text)

\* The backend serves invocation i in this step.
ServedStepC(i) ==
    pending[i].pc = "awaiting" /\ pending'[i].pc = "returned" /\ pending'[i].served

\* The envelope of an update that matched no reservation.
NotUpdated(input) ==
    NoReservationFor(input) \o <<" was updated. It may not exist.">>

\* Callers i and j are a delete and an update (without rename) of the same
\* pair, both served, and no other caller updates or deletes.
Raced(i, j) ==
    /\ pending[i].tool = "deleteReservation" /\ pending[j].tool = "updateReservation"
    /\ pending[i].pc = "returned" /\ pending[i].served
    /\ pending[j].pc = "returned" /\ pending[j].served
    /\ pending[i].input.name = pending[j].input.name
    /\ pending[i].input.mobile = pending[j].input.mobile
    /\ pending[j].input.new_name = Undefined /\ pending[j].input.new_mobile = Undefined
    /\ \A k \in Callers \ {i, j} :
          pending[k].tool \notin {"updateReservation", "deleteReservation"}

\* C19 as stated: whenever a delete and an update of the pair of the one
\* matching reservation have both been served, exactly one of the two
\* calls affected the row, and an update that found nothing returned the
\* generic 'No reservation for ... was updated. It may not exist.' envelope.
C19_ExactlyOneAffects ==
    \A i \in Callers : \A j \in Callers \ {i} :
        Raced(i, j)
        => /\ pending[i].envelope.isError # pending[j].envelope.isError
           /\ pending[j].envelope.isError
                => pending[j].envelope.text = NotUpdated(pending[j].input)

\* C19, amended: the backend applies the two calls one after the other. An
\* update served when the delete has removed the row returns the generic
\* 'No reservation for ... was updated. It may not exist.' error envelope,
\* the message of a record that never existed, and changes nothing; an
\* update or delete served while the one row is there succeeds. Once both
\* are served the delete has succeeded, the row is gone, and the update
\* has either succeeded (applied first: both calls affected the row) or
\* returned the generic envelope (applied second: only the delete did).
C19_DeleteRacesUpdate ==
    /\ [][\A i \in Callers :
            (ServedStepC(i)
               /\ pending[i].tool \in {"updateReservation", "deleteReservation"})
            => LET n == Cardinality(Carrying(db, pending[i].input)) IN
               /\ n = 0 => /\ pending'[i].envelope.isError
                           /\ db' = db
               /\ (n = 0 /\ pending[i].tool = "updateReservation")
                    => pending'[i].envelope.text = NotUpdated(pending[i].input)
               /\ n = 1 => /\ ~pending'[i].envelope.isError
                           /\ Cardinality(Carrying(db', pending[i].input)) =
                                (IF pending[i].tool = "deleteReservation"
                                 THEN 0 ELSE 1)]_vars
    /\ [](\A i \in Callers : \A j \in Callers \ {i} :
            Raced(i, j)
            => /\ ~pending[i].envelope.isError
               /\ Carrying(db, pending[i].input) = {}
               /\ pending[j].envelope.isError
                    => pending[j].envelope.text = NotUpdated(pending[j].input))

C19_Witness ==
    /\ pending # <<>> /\ Raced(1, 2)
    /\ ~pending[1].envelope.isError
    /\ pending[2].envelope.text = NotUpdated(pending[2].input)

\* The keys the PATCH body of an update input is to have.
ExpectedUpdateKeys(input) ==
    {key \in {"nb_people", "email", "date", "time", "notes"} :
        input[key] # Undefined}
    \cup (IF input.new_mobile # Undefined THEN {"mobile"} ELSE {})
    \cup (IF input.new_name # Undefined THEN {"name"} ELSE {})

\* C20: the PATCH body of every valid update holds exactly the supplied
\* fields among nb_people, email, date, time and notes, with mobile set to
\* new_mobile and name set to new_name when these are supplied; no key has
\* the value undefined, new_mobile and new_name are not keys, and the
\* current mobile and name are not in it.
C20_PatchBody ==
    (inv.tool = "updateReservation" /\ inv.calls = 1)
    => LET body == inv.request.body
           input == inv.input
       IN /\ inv.request.method = "PATCH"
          /\ body.kind = "object"
          /\ body.keys = ExpectedUpdateKeys(input)
          /\ \A key \in body.keys : body.fields[key] # Undefined
          /\ \A key \in body.keys \cap {"email", "date", "time", "notes"} :
                body.fields[key] = input[key]
          /\ "nb_people" \in body.keys
               => body.fields.nb_people = <<"number", input.nb_people[2]>>
          /\ "mobile" \in body.keys => body.fields.mobile = input.new_mobile
          /\ "name" \in body.keys => body.fields.name = input.new_name
          /\ "new_mobile" \notin body.keys /\ "new_name" \notin body.keys

C20_Witness ==
    /\ inv.tool = "updateReservation" /\ inv.pc = "awaiting"
    /\ inv.input.name = N2 /\ inv.input.new_name = N1
    /\ inv.request.body.keys = {"name"}
    /\ inv.request.body.fields.name = N1

\* C21: every request sent carries apikey equal to the configured key and
\* Authorization 'Bearer <key>'; it carries Content-Type application/json
\* exactly when it has a body, which a create and an update have and a
\* delete never has; and every POST, PATCH and DELETE carries Prefer
\* return=representation.
C21_RequestHeaders ==
    inv.calls = 1
    => LET h == inv.request.headers
           hasBody == inv.request.body.kind # "none"
       IN /\ h.apikey = env.SUPABASE_SERVICE_ROLE_KEY
          /\ h.Authorization = <<"Bearer ">> \o env.SUPABASE_SERVICE_ROLE_KEY
          /\ h.ContentType \in {Undefined, <<"application/json">>}
          /\ h.ContentType = <<"application/json">> <=> hasBody
          /\ hasBody <=> inv.tool \in {"createReservation", "updateReservation"}
          /\ inv.tool = "deleteReservation" => h.ContentType = Undefined
          /\ inv.request.method \in {"POST", "PATCH", "DELETE"}
               => h.Prefer = <<"return=representation">>
          /\ inv.request.method \in {"POST", "PATCH", "DELETE"}
               <=> inv.tool # "getReservation"

C21_Witness ==
    /\ inv.calls = 1 /\ inv.tool = "deleteReservation" /\ inv.pc = "awaiting"
    /\ inv.request.method = "DELETE"
    /\ inv.request.headers.ContentType = Undefined
    /\ inv.request.headers.Prefer = <<"return=representation">>
    /\ inv.request.headers.Authorization = <<"Bearer ">> \o ServiceKey

\* C22 as stated: every non-empty body that is valid JSON gives a result
\* whose data is the parsed value, whatever the status.
C22_ParsedValueAlways ==
    (Answered /\ inv.outcome.text.k = "json")
    => inv.result.data = inv.outcome.text.value

\* C22, amended: of every response whose body was read, an empty body gives
\* a result without data; a body that is valid JSON gives the parsed value
\* on a success status, and on a non-success status only when that value
\* is an object (or array), the data being absent otherwise; a body that is
\* not valid JSON gives the raw text as data on a success status. The
\* failed parse raises nothing: the call ends with an envelope, and the
\* result is a success exactly when the status is.
C22_BodyNormalization ==
    Answered
    => LET text == inv.outcome.text
           result == inv.result
       IN /\ text.k = "empty" => result.data = JSUndefined
          /\ (text.k = "json" /\ inv.outcome.ok) => result.data = text.value
          /\ (text.k = "json" /\ ~inv.outcome.ok)
               => result.data = (IF text.value.t \in {"object", "array"}
                                 THEN text.value ELSE JSUndefined)
          /\ (text.k = "invalid" /\ inv.outcome.ok) => result.data = JSString
          /\ result.success = inv.outcome.ok
          /\ result.success => result.error = Undefined
          /\ inv.error = <<>>

C22_Witness ==
    /\ Answered /\ inv.outcome.ok /\ inv.outcome.text = InvalidText
    /\ inv.result.success /\ inv.result.data = JSString
    /\ inv.tool = "createReservation"

\* The parsed body is an object in the sense of the code's test (typeof
\* data === "object" && data !== null), which an array passes too.
ParsedToObject(text) == text.k = "json" /\ text.value.t \in {"object", "array"}

TransportFailed ==
    /\ inv.pc \in {"returned", "threw"} /\ inv.calls = 1
    /\ inv.outcome.kind \in {"fetchRejected", "textRejected"}

\* C24: a rejected fetch and a failed read of the response body are caught
\* and give a result with success false, the message of the exception as
\* error, no duration and no data; every result made once the body of the
\* response was read, success or rejection, has a duration.
C24_TransportFailure ==
    /\ TransportFailed
         => /\ inv.pc = "returned"
            /\ ~inv.result.success
            /\ inv.result.error = inv.outcome.error
            /\ ~inv.result.duration
            /\ inv.result.data = JSUndefined
    /\ Answered => inv.result.duration

C24_Witness ==
    /\ TransportFailed /\ inv.outcome.kind = "textRejected"
    /\ inv.result.error = FetchFailed /\ ~inv.result.duration
    /\ inv.envelope.isError

\* An update ended with a success envelope.
UpdateSucceeded ==
    /\ inv.pc = "returned" /\ inv.tool = "updateReservation"
    /\ ~inv.envelope.isError

\* The number of keys of the input, other than mobile and name, whose value
\* is not undefined.
SuppliedChanges(input) ==
    Cardinality({key \in DOMAIN input :
                    key \notin {"mobile", "name"} /\ input[key] # Undefined})

\* The end of the message of a successful update that reports n fields.
ChangedSuffix(n) ==
    <<ToString(n), " field">> \o (IF n = 1 THEN <<>> ELSE <<"s">>)
        \o <<" changed.">>

EndsWith(s, suffix) ==
    Len(s) >= Len(suffix)
    /\ SubSeq(s, Len(s) - Len(suffix) + 1, Len(s)) = suffix

\* C25: the message of every successful update ends with the count of the
\* keys of the input, other than mobile and name, whose value is not
\* undefined, whatever record the backend returned, followed by 'field'
\* when the count is 1 and by 'fields' otherwise.
C25_ChangedCount ==
    UpdateSucceeded
    => LET n == SuppliedChanges(inv.input) IN
       /\ EndsWith(inv.envelope.text, ChangedSuffix(n))
       /\ Contains(inv.envelope.text, <<" field", "s">>) <=> n # 1

C25_Witness ==
    /\ UpdateSucceeded /\ SomeRows
    /\ SuppliedChanges(inv.input) = 1
    /\ inv.input.nb_people # Undefined
    /\ RowsReturned[1].name = N2 /\ inv.input.name = N1
    /\ EndsWith(inv.envelope.text, <<"1", " field", " changed.">>)

\* C26: a create answered with a success status and no record, an empty
\* array or an empty body, returns the error envelope 'Supabase returned no
\* data after creating the reservation.' without details, and never a
\* success envelope.
C26_CreateNoData ==
    (ZeroRows /\ inv.tool = "createReservation")
    => /\ inv.envelope.isError
       /\ inv.envelope.text =
            <<"**Error**",
              "Supabase returned no data after creating the reservation.">>
       /\ inv.envelope.block = "none"
       /\ ~Contains(inv.envelope.text, <<"Created reservation for ">>)

C26_Witness ==
    /\ ZeroRows /\ inv.tool = "createReservation"
    /\ inv.outcome.text = JsonText(JSArray(<<>>))
    /\ inv.result.success /\ inv.envelope.isError

\* The locating pair a call is addressed to, and the pair of a row.
AddressedPair(input) == <<input.name, input.mobile>>

PairOf(row) == <<row.name, row.mobile>>

\* The pair an update gives the reservation: new_name and new_mobile where
\* supplied, the current values otherwise.
RekeyedPair(input) ==
    <<Coalesce(input.new_name, input.name),
      Coalesce(input.new_mobile, input.mobile)>>

\* The qualifiers of a lookup hold of the row.
QualifiersHold(input, row) ==
    /\ input.date # Undefined => row.date = input.date
    /\ input.time # Undefined => row.time = input.time

\* C27: while the table holds one reservation, at pair P: an update served
\* for P succeeds and leaves the one reservation at the pair Q its new_name
\* and new_mobile give, which is P when it supplies neither; and an update,
\* delete or lookup served afterwards returns the 'No reservation for ...'
\* error envelope and changes nothing when it is addressed to a pair other
\* than the one the reservation now has (so to P after a rekeying to
\* Q # P), and locates the record, returning it in a success envelope,
\* when it is addressed to the pair the reservation now has.
C27_Rekeying ==
    [][(ServedStep /\ Len(db) = 1 /\ inv.tool # "createReservation")
       => LET row == db[1]
              here == AddressedPair(inv.input) = PairOf(row)
          IN /\ (inv.tool = "updateReservation" /\ here)
                  => /\ ~inv'.envelope.isError
                     /\ Len(db') = 1
                     /\ PairOf(db'[1]) = RekeyedPair(inv.input)
                     /\ inv'.envelope.json = JSObject(db'[1])
             /\ ~here
                  => /\ inv'.envelope.isError
                     /\ StartsWith(inv'.envelope.text, NoReservationFor(inv.input))
                     /\ db' = db
             /\ (here /\ inv.tool = "deleteReservation")
                  => /\ ~inv'.envelope.isError
                     /\ inv'.envelope.json = JSObject(row)
                     /\ db' = <<>>
             /\ (here /\ inv.tool = "getReservation"
                   /\ QualifiersHold(inv.input, row))
                  => /\ ~inv'.envelope.isError
                     /\ inv'.envelope.json = JSObject(row)
                     /\ db' = db]_vars

\* A delete addressed to (N1, M1) finds nothing: the one reservation has
\* the mobile M2, which only an update with new_mobile gives.
C27_Witness ==
    /\ inv.pc = "returned" /\ inv.served /\ inv.tool = "deleteReservation"
    /\ AddressedPair(inv.input) = <<N1, M1>>
    /\ Len(db) = 1 /\ PairOf(db[1]) = <<N1, M2>>
    /\ inv.envelope.isError
    /\ StartsWith(inv.envelope.text, NoReservationFor(inv.input))

\* The handler body of the call raised an exception: the schema parse or
\* the encoding of the service threw.
BodyThrew == ServiceCall(inv.tool, env, inv.input).kind = "throw"

\* C28: in the instrumented variant registered with the props init()
\* passes, every call ends with an envelope and its span ended exactly
\* once, and a call whose handler body raised an exception ends with an
\* error envelope 'Unexpected error: ...' carrying an Event ID.
C28_SentryCatches ==
    (server.variant = "sentry" /\ server.arg = InitProps
       /\ inv.pc \in {"returned", "threw"})
    => /\ inv.pc = "returned"
       /\ inv.spanEnds = 1
       /\ BodyThrew
            => /\ inv.envelope.isError
               /\ StartsWith(inv.envelope.text, <<"**Error**", "Unexpected error: ">>)
               /\ EndsWith(inv.envelope.text, EventId)

\* C29: for every update input that passes validation, the count of
\* changed fields in the success message is the number of keys of the
\* PATCH body sent to the backend.
C29_CountMatchesBody ==
    (UpdateSucceeded /\ ValidInput(inv.tool, inv.input))
    => EndsWith(inv.envelope.text,
                ChangedSuffix(Cardinality(inv.request.body.keys)))

\* The envelope the handler of the call returns when the backend answers
\* with a success status and the given rows.
EnvelopeOfRows(rows) ==
    HandlerReturn(inv.tool, inv.input,
                  supabaseRequestResult(
                      Response(TRUE, <<"OK">>, JsonText(JSArray(rows)))))

\* C30: an update or a delete answered with k >= 2 rows returns a success
\* envelope whose payload is the first returned row only and whose message
\* says nothing of k: the envelope is the one the same call returns when
\* the first row alone comes back. A lookup answered with k >= 2 rows
\* reports k.
C30_ManyRowsAsOne ==
    (SomeRows /\ Len(RowsReturned) >= 2)
    => /\ inv.tool \in {"updateReservation", "deleteReservation"}
            => /\ ~inv.envelope.isError
               /\ inv.envelope.block = "Result"
               /\ inv.envelope.json = JSObject(RowsReturned[1])
               /\ inv.envelope = EnvelopeOfRows(<<RowsReturned[1]>>)
               /\ ~Contains(inv.envelope.text, <<" reservations">>)
       /\ inv.tool = "getReservation"
            => /\ Contains(inv.envelope.text,
                           <<ToString(Len(RowsReturned)), " reservations">>)
               /\ inv.envelope # EnvelopeOfRows(<<RowsReturned[1]>>)

C30_Witness ==
    /\ SomeRows /\ Len(RowsReturned) = 2 /\ RowsReturned[1] # RowsReturned[2]
    /\ inv.tool = "deleteReservation"
    /\ ~inv.envelope.isError
    /\ inv.envelope.json = JSObject(RowsReturned[1])

====
